---- MODULE Spec2Model ----
(***************************************************************************)
(* sequence::Sequence (core/Sequence.hpp, core/Sequence.cpp): the term     *)
(* evaluator at(), the cycle analyzer doUntil() and the batch runner       *)
(* loadNUntil(), with one caller thread and the units std::async starts.   *)
(* C++ vectors are TLA+ sequences: the C++ index n is the TLA+ index n+1.  *)
(* Terms are int64_t; every term the bounds below reach lies far inside    *)
(* the 64-bit range, so no addition of the model wraps.                    *)
(***************************************************************************)
EXTENDS Integers, Sequences, FiniteSets, TLC

\* ------------------------------------------------------------- bounds
\* loadNUntil's n (a uint8_t) is drawn from 0..MaxN
MaxN == 2
\* loadNUntil's step (a uint8_t) is drawn from 0..MaxStep
MaxStep == 1
\* a doUntil loop is followed for at most MaxCycle iterations
MaxCycle == 8
\* at() is queried at the indices 0..MaxIdx
MaxIdx == 6

\* ------------------------------------------------------------- inputs
\* the recurrence relations a caller binds (seq_t values)
Relations == {"collatz", "fibonacci", "difference"}

\* the number of terms a relation reads from its window
Arity(seq) == IF seq = "collatz" THEN 1 ELSE 2

\* the initial terms a caller supplies for a relation (its arity respected)
TermVecs(seq) ==
    IF Arity(seq) = 1 THEN {<<1>>, <<2>>, <<3>>, <<4>>, <<6>>}
                      ELSE {<<0, 10>>, <<1, 3>>, <<3, 1>>}

\* the values a caller runs a sequence until
Targets == {1, 3, 4, 16}

\* the Collatz step on the newest term
Collatz(vec) == IF vec[1] % 2 = 0 THEN vec[1] \div 2 ELSE 3 * vec[1] + 1

\* the relation of the documentation of seq_t: un_[1] + un_[0]
Fibonacci(vec) == vec[2] + vec[1]

\* un_[0] - un_[1]: an order-2 relation that tells its two window slots apart
Difference(vec) == vec[1] - vec[2]

\* m_seq(vec): the bound relation applied to a window
Apply(seq, vec) ==
    IF Len(vec) < Arity(seq) THEN 0
    ELSE IF seq = "collatz" THEN Collatz(vec)
    ELSE IF seq = "fibonacci" THEN Fibonacci(vec)
    ELSE Difference(vec)

\* ------------------------------------------------------- term evaluator
\* what a call of at() yields: a value, or the exception it throws; windows
\* records the sizes of the windows the relation was invoked on
Value(v, w) == [kind |-> "value", val |-> v, windows |-> w]
Thrown(w) == [kind |-> "invalid_argument", val |-> 0, windows |-> w]

\* at() without its guard: every vector passes for initial terms
NoTermsUnchecked(uz) == FALSE

\* the guard of at(): no initial terms to evaluate against
NoTerms(uz) == Len(uz) = 0

\* the window filled from the oldest term to the newest
WindowOldestFirst(sub) == [j \in 1..Len(sub) |-> sub[Len(sub) + 1 - j].val]

\* the window at() hands to the relation, given the terms at n-1, ..., n-k
\* (sub[j] is the value of at(n - j)): push_back in the order of the loop
Window(sub) == [j \in 1..Len(sub) |-> sub[j].val]

RECURSIVE at(_, _, _), PushBack(_, _, _, _)
\* the loop `for (i = 1; i <= uzSize; ++i) vec.push_back(at(n - i, uz))`
\* after its first j iterations: the results of at(n - 1), ..., at(n - j)
PushBack(seq, n, uz, j) ==
    IF j = 0 THEN <<>> ELSE Append(PushBack(seq, n, uz, j - 1), at(seq, n - j, uz))

\* the result of at() from the results of the calls it made
Compose(seq, sub) ==
    LET w == UNION {sub[j].windows : j \in 1..Len(sub)} IN
    IF \E j \in 1..Len(sub) : sub[j].kind # "value"
    THEN Thrown(w)
    ELSE Value(Apply(seq, Window(sub)), w \cup {Len(sub)})

at(seq, n, uz) ==
    IF NoTerms(uz) THEN Thrown({})
    ELSE IF n < Len(uz) THEN Value(uz[n + 1], {})
    ELSE Compose(seq, PushBack(seq, n, uz, Len(uz)))

\* ------------------------------------------------------------- state
VARIABLES
    m_seq,     \* Sequence::m_seq, the bound relation
    m_uz,      \* Sequence::m_uz, the bound initial terms (<<>>: none bound)
    pc,        \* where the caller thread is
    call,      \* the call in progress or just completed, with its arguments
    frame,     \* the doUntil activation the caller itself runs
    uz,        \* loadNUntil: the working vector
    i,         \* loadNUntil: the loop counter of the dispatch loop
    units,     \* loadNUntil: the tasks handed to std::async, in launch order
    map,       \* loadNUntil: key -> index in units of the future stored there
    ret,       \* loadNUntil: the ResultMap under construction
    outcome    \* what the completed call gave its caller

vars == <<m_seq, m_uz, pc, call, frame, uz, i, units, map, ret, outcome>>

\* the function with an empty domain: an empty std::map
EmptyMap == [k \in {} |-> 0]

\* a doUntil activation that has not run yet
NoFrame == [st |-> "none"]

\* Sequence::Result
Result(cycleLen, maxTerm) == [cycleLen |-> cycleLen, maxTerm |-> maxTerm]

\* the sequence's inline at(n): at(n, m_uz)
at1(n) == at(m_seq, n, m_uz)

\* ------------------------------------------------------- cycle analyzer
\* the term doUntil seeds its loop with: the expression at(0) of
\* `int64_t maxTerm = at(0);`
FirstTerm(uzArg) == at1(0)

\* doUntil(value, uz) up to the first test of its loop
doUntilEnter(value, uzArg) ==
    LET r == FirstTerm(uzArg) IN
    [st |-> IF r.kind = "value" THEN "loop" ELSE "thrown",
     value |-> value, uz |-> uzArg, cycle |-> 0,
     term |-> r.val, maxTerm |-> r.val, windows |-> r.windows]

\* the running maximum after the body of the loop
NewMax(term, maxTerm) == IF term > maxTerm THEN term ELSE maxTerm

\* one iteration of the loop: its body, then term = at(++cycle, uz)
doUntilIter(f) ==
    LET r == at(m_seq, f.cycle + 1, f.uz) IN
    [f EXCEPT !.st = IF r.kind = "value" THEN "loop" ELSE "thrown",
              !.maxTerm = NewMax(f.term, f.maxTerm),
              !.cycle = f.cycle + 1,
              !.term = r.val,
              !.windows = f.windows \cup r.windows]

\* the loop's test: term != value
Continues(f) == f.st = "loop" /\ f.term # f.value

\* the loop has ended: doUntil returns Result(cycle, maxTerm)
Returns(f) == f.st = "loop" /\ f.term = f.value

doUntilExit(f) == [f EXCEPT !.st = "returned"]

\* a doUntil activation that is over
Finished(f) == f.st \in {"returned", "thrown"}

\* --------------------------------------------------------- construction
\* Sequence(uz, seq) and Sequence(seq): the second binds no terms
Init ==
    /\ m_seq \in Relations
    /\ m_uz \in TermVecs(m_seq) \cup {<<>>}
    /\ pc = "idle"
    /\ call = [op |-> "none"]
    /\ frame = NoFrame
    /\ uz = <<>>
    /\ i = 0
    /\ units = <<>>
    /\ map = EmptyMap
    /\ ret = EmptyMap
    /\ outcome = [kind |-> "none"]

\* the locals of loadNUntil before the call
NoBatch == uz' = <<>> /\ i' = 0 /\ units' = <<>> /\ map' = EmptyMap /\ ret' = EmptyMap

\* withUz(u): rebind the initial terms
withUz(u) ==
    /\ pc = "idle"
    /\ m_uz' = u
    /\ UNCHANGED <<m_seq, pc, call, frame, uz, i, units, map, ret, outcome>>

\* what a finished at() gives its caller
AtOutcome(r) == [kind |-> r.kind, val |-> r.val, windows |-> r.windows]

\* at(n): the term of rank n of the bound terms
CallAt1(n) ==
    /\ pc = "idle"
    /\ call' = [op |-> "at", override |-> FALSE, n |-> n, uz |-> m_uz]
    /\ outcome' = AtOutcome(at1(n))
    /\ pc' = "done"
    /\ UNCHANGED <<m_seq, m_uz, frame, uz, i, units, map, ret>>

\* at(n, u): the term of rank n of the given terms
CallAt2(n, u) ==
    /\ pc = "idle"
    /\ call' = [op |-> "at", override |-> TRUE, n |-> n, uz |-> u]
    /\ outcome' = AtOutcome(at(m_seq, n, u))
    /\ pc' = "done"
    /\ UNCHANGED <<m_seq, m_uz, frame, uz, i, units, map, ret>>

\* doUntil(value): the inline overload, doUntil(value, m_uz)
CallDoUntil1(value) ==
    /\ pc = "idle"
    /\ call' = [op |-> "doUntil", override |-> FALSE, value |-> value, uz |-> m_uz]
    /\ frame' = doUntilEnter(value, m_uz)
    /\ pc' = "doUntil"
    /\ UNCHANGED <<m_seq, m_uz, uz, i, units, map, ret, outcome>>

\* doUntil(value, u)
CallDoUntil2(value, u) ==
    /\ pc = "idle"
    /\ call' = [op |-> "doUntil", override |-> TRUE, value |-> value, uz |-> u]
    /\ frame' = doUntilEnter(value, u)
    /\ pc' = "doUntil"
    /\ UNCHANGED <<m_seq, m_uz, uz, i, units, map, ret, outcome>>

\* the caller's doUntil: one iteration of its loop
DoUntilStep ==
    /\ pc = "doUntil"
    /\ Continues(frame)
    /\ frame.cycle < MaxCycle
    /\ frame' = doUntilIter(frame)
    /\ UNCHANGED <<m_seq, m_uz, pc, call, uz, i, units, map, ret, outcome>>

\* the caller's doUntil returns its Result
DoUntilReturn ==
    /\ pc = "doUntil"
    /\ Returns(frame)
    /\ frame' = doUntilExit(frame)
    /\ outcome' = [kind |-> "result", res |-> Result(frame.cycle, frame.maxTerm),
                   windows |-> frame.windows]
    /\ pc' = "done"
    /\ UNCHANGED <<m_seq, m_uz, call, uz, i, units, map, ret>>

\* the exception of at() leaves doUntil, which catches nothing
DoUntilThrow ==
    /\ pc = "doUntil"
    /\ frame.st = "thrown"
    /\ outcome' = [kind |-> "invalid_argument", windows |-> frame.windows]
    /\ pc' = "done"
    /\ UNCHANGED <<m_seq, m_uz, call, frame, uz, i, units, map, ret>>

\* the caller is done with the result and may call again
Forget ==
    /\ pc = "done"
    /\ pc' = "idle"
    /\ call' = [op |-> "none"]
    /\ frame' = NoFrame
    /\ outcome' = [kind |-> "none"]
    /\ NoBatch
    /\ UNCHANGED <<m_seq, m_uz>>

\* ---------------------------------------------------------- batch runner
\* std::less<vec_t>, the order of the keys of both maps: lexicographic
RECURSIVE VecLess(_, _)
VecLess(a, b) ==
    IF Len(b) = 0 THEN FALSE
    ELSE IF Len(a) = 0 THEN TRUE
    ELSE IF a[1] < b[1] THEN TRUE
    ELSE IF b[1] < a[1] THEN FALSE
    ELSE VecLess(Tail(a), Tail(b))

\* an increment that reaches the first component only
AddStepToFirst(vec, step) ==
    [j \in 1..Len(vec) |-> IF j = 1 THEN vec[j] + step ELSE vec[j]]

\* std::for_each(uz.begin(), uz.end(), [=](int64_t& i) { i += step; })
AddStep(vec, step) == [j \in 1..Len(vec) |-> vec[j] + step]

\* std::async without a launch policy: the implementation runs the task on a
\* thread of its own, or defers it to the get() of its future
Policies == {"async", "deferred"}

\* the task std::async is handed: doUntil(value, uz) on a copy of uz
Task(policy, value, uzArg) ==
    [policy |-> policy,
     f |-> [st |-> "ready", value |-> value, uz |-> uzArg, cycle |-> 0,
            term |-> 0, maxTerm |-> 0, windows |-> {}]]

\* destroying the future of unit u does not block: a deferred task, or a
\* thread that is over
Releasable(u) == units[u].policy = "deferred" \/ Finished(units[u].f)

\* a deferred task whose future is destroyed before any get() never runs
Release(us, u) ==
    IF us[u].policy = "deferred" /\ us[u].f.st = "ready"
    THEN [us EXCEPT ![u].f.st = "abandoned"]
    ELSE us

\* the keys the join loop has not reached yet, and the first of them
Pending == DOMAIN map \ DOMAIN ret
NextKey == CHOOSE k \in Pending : \A k2 \in Pending \ {k} : VecLess(k, k2)

\* unit u may take a step: on its own thread at any time, deferred only
\* inside the get() of its future
CanRun(u) ==
    \/ units[u].policy = "async"
    \/ pc = "join" /\ Pending # {} /\ map[NextKey] = u

\* loadNUntil(n, value, step): vec_t uz = m_uz, and the empty future map
CallLoadNUntil(n, value, step) ==
    /\ pc = "idle"
    /\ call' = [op |-> "loadNUntil", n |-> n, value |-> value, step |-> step,
                uz |-> m_uz]
    /\ uz' = m_uz
    /\ i' = 0
    /\ units' = <<>>
    /\ map' = EmptyMap
    /\ ret' = EmptyMap
    /\ pc' = IF 0 < n THEN "for" ELSE "join"
    /\ UNCHANGED <<m_seq, m_uz, frame, outcome>>

\* the right-hand side of map[uz] = std::async(...): the task is launched
Launch(policy) ==
    /\ pc = "for"
    /\ units' = Append(units, Task(policy, call.value, uz))
    /\ pc' = "assign"
    /\ UNCHANGED <<m_seq, m_uz, call, frame, uz, i, map, ret, outcome>>

\* the assignment to map[uz], which destroys the future the slot held, then
\* the increment of uz and ++i
Assign ==
    /\ pc = "assign"
    /\ uz \in DOMAIN map => Releasable(map[uz])
    /\ units' = IF uz \in DOMAIN map THEN Release(units, map[uz]) ELSE units
    /\ map' = [k \in DOMAIN map \cup {uz} |-> IF k = uz THEN Len(units) ELSE map[k]]
    /\ uz' = AddStep(uz, call.step)
    /\ i' = i + 1
    /\ pc' = IF i + 1 < call.n THEN "for" ELSE "join"
    /\ UNCHANGED <<m_seq, m_uz, call, frame, ret, outcome>>

\* unit u enters doUntil
UnitEnter(u) ==
    /\ u \in DOMAIN units
    /\ units[u].f.st = "ready"
    /\ CanRun(u)
    /\ units' = [units EXCEPT ![u].f = doUntilEnter(units[u].f.value, units[u].f.uz)]
    /\ UNCHANGED <<m_seq, m_uz, pc, call, frame, uz, i, map, ret, outcome>>

\* unit u runs one iteration of its loop
UnitStep(u) ==
    /\ u \in DOMAIN units
    /\ Continues(units[u].f)
    /\ units[u].f.cycle < MaxCycle
    /\ CanRun(u)
    /\ units' = [units EXCEPT ![u].f = doUntilIter(units[u].f)]
    /\ UNCHANGED <<m_seq, m_uz, pc, call, frame, uz, i, map, ret, outcome>>

\* unit u returns its Result into the shared state of its future
UnitReturn(u) ==
    /\ u \in DOMAIN units
    /\ Returns(units[u].f)
    /\ CanRun(u)
    /\ units' = [units EXCEPT ![u].f = doUntilExit(units[u].f)]
    /\ UNCHANGED <<m_seq, m_uz, pc, call, frame, uz, i, map, ret, outcome>>

\* a get() that does not wait for the shared state to be ready
ReadyAtOnce(u) == TRUE

\* the future of the next key is ready: get() returns or rethrows
Ready(u) == Finished(units[u].f)

\* (*ret)[key] = i.get() for the next key in the order of the map
JoinGet ==
    /\ pc = "join"
    /\ Pending # {}
    /\ Ready(map[NextKey])
    /\ IF units[map[NextKey]].f.st = "thrown"
       THEN /\ ret' = ret
            /\ pc' = "unwind"
       ELSE /\ ret' = [k \in DOMAIN ret \cup {NextKey} |->
                          IF k = NextKey
                          THEN Result(units[map[NextKey]].f.cycle,
                                      units[map[NextKey]].f.maxTerm)
                          ELSE ret[k]]
            /\ pc' = pc
    /\ UNCHANGED <<m_seq, m_uz, call, frame, uz, i, units, map, outcome>>

\* the futures the map still holds when it is destroyed
Held == {map[k] : k \in DOMAIN map}

\* the exception leaves loadNUntil: ret is dropped and the map of futures is
\* destroyed, which waits for the threads of the futures it holds
Unwind ==
    /\ pc = "unwind"
    /\ \A u \in Held : Releasable(u)
    /\ units' = [u \in DOMAIN units |->
                    IF u \in Held THEN Release(units, u)[u] ELSE units[u]]
    /\ ret' = EmptyMap
    /\ outcome' = [kind |-> "invalid_argument"]
    /\ pc' = "done"
    /\ UNCHANGED <<m_seq, m_uz, call, frame, uz, i, map>>

\* the loop over the futures is over: return ret
JoinReturn ==
    /\ pc = "join"
    /\ Pending = {}
    /\ outcome' = [kind |-> "map", map |-> ret]
    /\ pc' = "done"
    /\ UNCHANGED <<m_seq, m_uz, call, frame, uz, i, units, map, ret>>

\* ---------------------------------------------------------- specification
Next ==
    \/ \E u \in TermVecs(m_seq) \cup {<<>>} : withUz(u)
    \/ \E n \in 0..MaxIdx : CallAt1(n)
    \/ \E n \in 0..MaxIdx, u \in TermVecs(m_seq) \cup {<<>>} : CallAt2(n, u)
    \/ \E value \in Targets : CallDoUntil1(value)
    \/ \E value \in Targets, u \in TermVecs(m_seq) \cup {<<>>} : CallDoUntil2(value, u)
    \/ DoUntilStep
    \/ DoUntilReturn
    \/ DoUntilThrow
    \/ \E n \in 0..MaxN, value \in Targets, step \in 0..MaxStep :
          CallLoadNUntil(n, value, step)
    \/ \E policy \in Policies : Launch(policy)
    \/ Assign
    \/ \E u \in 1..MaxN + 1 : UnitEnter(u)
    \/ \E u \in 1..MaxN + 1 : UnitStep(u)
    \/ \E u \in 1..MaxN + 1 : UnitReturn(u)
    \/ JoinGet
    \/ Unwind
    \/ JoinReturn
    \/ Forget

Spec == Init /\ [][Next]_vars

\* ------------------------------------------------------------ properties
\* the effective terms of the call: the override when one is supplied,
\* otherwise the bound terms
EffTerms == call.uz

\* the term of rank j of the sequence that starts from the terms T
TermOf(j, T) == at(m_seq, j, T).val

\* the indices up to a horizon at which the sequence of T equals v
Hits(T, v, upto) == {j \in 0..upto : TermOf(j, T) = v}

Least(S) == CHOOSE x \in S : \A y \in S : x <= y
Greatest(S) == CHOOSE x \in S : \A y \in S : y <= x

\* a doUntil call has completed and given the caller a Result
DoUntilResult == pc = "done" /\ call.op = "doUntil" /\ outcome.kind = "result"

\* a loadNUntil call has completed and given the caller a ResultMap
LoadResult == pc = "done" /\ call.op = "loadNUntil" /\ outcome.kind = "map"

\* C1: whenever doUntil returns and the sequence of the effective terms (the
\* override if one is supplied, else the bound terms) reaches the target, the
\* returned cycleLen is the smallest index at which that sequence equals the
\* target.
C1_CycleLenIsFirstIndex ==
    (DoUntilResult /\ EffTerms # <<>> /\ Hits(EffTerms, call.value, MaxCycle) # {})
        => outcome.res.cycleLen = Least(Hits(EffTerms, call.value, MaxCycle))

\* C2: whenever doUntil returns, the returned maxTerm is the greatest of the
\* terms of ranks 0..cycleLen of the sequence of the effective terms, the
\* starting term and the matched term included.
C2_MaxTermIsMaximum ==
    (DoUntilResult /\ EffTerms # <<>>)
        => outcome.res.maxTerm =
              Greatest({TermOf(j, EffTerms) : j \in 0..outcome.res.cycleLen})

\* the vector B with d added to every component
Shifted(B, d) == [j \in 1..Len(B) |-> B[j] + d]

\* the keys B, B+step, ..., B+(n-1)*step of a batch
BatchKeys(B, n, step) == {Shifted(B, j * step) : j \in 0..n - 1}

\* C3 as stated: a returned map has exactly n entries, keyed B, B+step, ...,
\* B+(n-1)*step, for every step, step = 0 included.
C3_ExactlyNEntries ==
    LoadResult
        => /\ Cardinality(DOMAIN outcome.map) = call.n
           /\ DOMAIN outcome.map = BatchKeys(call.uz, call.n, call.step)

\* C3 amended: the keys of a returned map are B, B+step, ..., B+(n-1)*step
\* with the step added to every component; they are n distinct keys when
\* step >= 1, and the single key B when step = 0 and n >= 1.
C3_KeysOfBatch ==
    LoadResult
        => /\ DOMAIN outcome.map = BatchKeys(call.uz, call.n, call.step)
           /\ Cardinality(DOMAIN outcome.map) =
                 IF call.step >= 1 \/ call.n = 0 THEN call.n ELSE 1

\* C3's case: a batch of two over a two-component base with step 1 returned
C3_Witness ==
    LoadResult /\ call.n = 2 /\ call.step = 1 /\ Len(call.uz) = 2

\* the Result of the walk that starts at K's own term 0 and stops at the
\* first index c at which it equals v: what doUntil(v) gives when K is bound
WalkResult(K, v) ==
    LET c == Least(Hits(K, v, MaxCycle))
    IN  Result(c, Greatest({TermOf(j, K) : j \in 0..(IF c = 0 THEN 0 ELSE c - 1)}))

\* C4: in a returned map, the Result under every key K is the Result of the
\* walk from K's own terms to the target.
C4_ResultOfOwnSeed ==
    LoadResult
        => \A K \in DOMAIN outcome.map :
              Hits(K, call.value, MaxCycle) # {}
                 => outcome.map[K] = WalkResult(K, call.value)

\* an at() call has completed with a value
AtValue == pc = "done" /\ call.op = "at" /\ outcome.kind = "value"

\* C5 as stated: for n >= k, at(n) is the relation applied to the window
\* [at(n-k), ..., at(n-1)], oldest first; for n < k it is terms[n].
C5_WindowOldestFirst ==
    AtValue
        => LET T == EffTerms
               k == Len(T)
           IN  outcome.val =
                  IF call.n < k THEN T[call.n + 1]
                  ELSE Apply(m_seq, [j \in 1..k |-> TermOf(call.n - k + j - 1, T)])

\* C5 amended: for n >= k, at(n) is the relation applied to the window
\* [at(n-1), ..., at(n-k)], newest first; for n < k it is terms[n].
C5_WindowNewestFirst ==
    AtValue
        => LET T == EffTerms
               k == Len(T)
           IN  outcome.val =
                  IF call.n < k THEN T[call.n + 1]
                  ELSE Apply(m_seq, [j \in 1..k |-> TermOf(call.n - j, T)])

\* C5's case: a term beyond the initial ones of an order-2 relation that
\* tells the slots of its window apart
C5_Witness ==
    AtValue /\ m_seq = "difference" /\ call.n >= Len(EffTerms) /\ outcome.val # 0

\* C6: doUntil(target, U) with a non-empty override U on a sequence that has
\* no bound terms does not fail with Invalid Configuration.
C6_OverrideSuffices ==
    (pc = "done" /\ call.op = "doUntil" /\ call.override /\ call.uz # <<>>
        /\ m_uz = <<>>)
        => outcome.kind # "invalid_argument"

\* C7: with no terms bound and no override, at(n) and doUntil(target) fail
\* with Invalid Configuration, the relation is never invoked (on an empty
\* window or any other), and doUntil hands on the failure of at() as it is.
C7_NoTermsFails ==
    (pc = "done" /\ call.op \in {"at", "doUntil"} /\ ~call.override
        /\ m_uz = <<>>)
        => /\ outcome.kind = "invalid_argument"
           /\ outcome.kind = at1(0).kind
           /\ outcome.windows = {}

\* C7's case: doUntil(target) has failed on a sequence without terms
C7_Witness ==
    /\ pc = "done" /\ call.op = "doUntil" /\ ~call.override /\ m_uz = <<>>
    /\ frame.st = "thrown"

\* how far the sequences of the supplied terms are followed to decide that
\* they never reach a target
Horizon == 2 * MaxCycle

\* C8: a doUntil call on non-empty effective terms completes only by
\* returning a Result, never by a failure, and only if the sequence of the
\* effective terms reaches the target.
C8_TerminatesIffReached ==
    (pc = "done" /\ call.op = "doUntil" /\ EffTerms # <<>>)
        => /\ outcome.kind = "result"
           /\ Hits(EffTerms, call.value, Horizon) # {}

\* a loadNUntil call has completed, by a map or by an exception
LoadDone == pc = "done" /\ call.op = "loadNUntil"

\* unit u was launched deferred and never ran: a later unit with an equal key
\* took its slot in the map of futures before any get()
Displaced(u) ==
    /\ units[u].policy = "deferred"
    /\ units[u].f.st = "abandoned"
    /\ \E v \in DOMAIN units : v > u /\ units[v].f.uz = units[u].f.uz

\* C9 as stated: when the caller has the returned map, every dispatched unit
\* has completed; none is still running or yet to start.
C9_AllUnitsCompleted ==
    LoadResult => \A u \in DOMAIN units : units[u].f.st = "returned"

\* what holds of the code in place of C9: when the caller has the returned
\* map, n units were dispatched and each of them has completed, but for the
\* units that were launched deferred and displaced by a later unit with an
\* equal key, which never run; no unit is running or yet to run, and the map
\* holds the Result of the unit whose future its key held.
ReturnsAfterStartedUnits ==
    LoadResult
        => /\ Len(units) = call.n
           /\ \A u \in DOMAIN units : units[u].f.st = "returned" \/ Displaced(u)
           /\ \A K \in DOMAIN map :
                 /\ units[map[K]].f.st = "returned"
                 /\ outcome.map[K] = Result(units[map[K]].f.cycle,
                                            units[map[K]].f.maxTerm)

\* a batch of two distinct keys returned, and a unit on a thread of its own
\* went through iterations of its loop
ReturnedAfterThread ==
    /\ LoadResult /\ call.n = 2 /\ call.step = 1
    /\ \E u \in DOMAIN units : units[u].policy = "async" /\ units[u].f.cycle > 1

\* C10 as stated: when a unit has failed, loadNUntil raises the error and
\* returns no map, and the error reaches the caller with every dispatched
\* unit run to its end: none cancelled, none left unjoined.
C10_ErrorAfterAllUnits ==
    (LoadDone /\ \E u \in DOMAIN units : units[u].f.st = "thrown")
        => /\ outcome.kind = "invalid_argument"
           /\ \A u \in DOMAIN units : Finished(units[u].f)

\* what holds of the code in place of C10: when a unit has failed, and
\* whenever n >= 1 and no terms are bound, loadNUntil raises invalid_argument
\* and returns no map, partial or other; the error reaches the caller when
\* every unit that started is over, the only units that do not run being
\* those launched deferred and displaced by a later unit with an equal key.
ErrorAfterStartedUnits ==
    /\ (LoadDone /\ \E u \in DOMAIN units : units[u].f.st = "thrown")
          => /\ outcome.kind = "invalid_argument"
             /\ ret = EmptyMap
             /\ \A u \in DOMAIN units : Finished(units[u].f) \/ Displaced(u)
    /\ (LoadDone /\ call.n >= 1 /\ call.uz = <<>>)
          => outcome.kind = "invalid_argument"

\* a batch of two without bound terms has failed, the first unit having run
\* on a thread of its own
FailedAfterThread ==
    /\ LoadDone /\ call.n = 2 /\ outcome.kind = "invalid_argument"
    /\ units[1].policy = "async" /\ units[1].f.st = "thrown"
    /\ units[2].f.st = "thrown"

\* the keys of a std::map in the order its iteration visits them: ascending
\* under std::less<vec_t>
RECURSIVE InOrder(_)
InOrder(keys) ==
    IF keys = {} THEN <<>>
    ELSE LET first == CHOOSE k \in keys : \A k2 \in keys \ {k} : VecLess(k, k2)
         IN  <<first>> \o InOrder(keys \ {first})

\* the iteration of a ResultMap
Iterate(m) == InOrder(DOMAIN m)

\* doUntil run from its first test to its end with nothing interleaved
RECURSIVE RunToEnd(_)
RunToEnd(f) ==
    IF Continues(f) /\ f.cycle < MaxCycle THEN RunToEnd(doUntilIter(f)) ELSE f

\* the Result doUntil(v, K) gives when it runs alone on this sequence
Alone(K, v) ==
    LET f == RunToEnd(doUntilEnter(v, K)) IN Result(f.cycle, f.maxTerm)

\* C11: the map loadNUntil returns is fixed by the relation, the bound terms,
\* n, the target and the step, whatever the interleaving and the order in
\* which the units start and finish: its keys are B, B+step, ...; under each
\* key is the Result doUntil gives for that key when it runs alone; and its
\* iteration visits the keys in ascending lexicographic order. A unit that
\* has returned holds that Result whatever the other units are doing.
C11_MapIsDetermined ==
    /\ LoadResult
          => /\ outcome.map =
                   [K \in BatchKeys(call.uz, call.n, call.step) |->
                       Alone(K, call.value)]
             /\ Iterate(outcome.map) =
                   [j \in 1..Cardinality(DOMAIN outcome.map) |->
                       Shifted(call.uz, (j - 1) * call.step)]
    /\ \A u \in DOMAIN units :
          units[u].f.st = "returned"
             => Result(units[u].f.cycle, units[u].f.maxTerm) =
                   Alone(units[u].f.uz, units[u].f.value)

\* C11's case: a batch of two keys returned, both units having run on threads
\* of their own through iterations of their loops
C11_Witness ==
    /\ LoadResult /\ call.n = 2 /\ call.step = 1
    /\ \A u \in DOMAIN units : units[u].policy = "async" /\ units[u].f.cycle > 1

\* the second unit of a batch is over while the first has not entered doUntil
FinishedOutOfOrder ==
    /\ pc = "join" /\ Len(units) = 2 /\ call.step = 1
    /\ units[1].f.st = "ready" /\ units[2].f.st = "returned"
    /\ units[2].f.cycle > 1

\* the terms unit u was dispatched with: the base after u - 1 increments
DispatchedTerms(u) == Shifted(call.uz, (u - 1) * call.step)

\* C12: during and after loadNUntil the bound terms are those of before the
\* call, every unit holds the terms it was dispatched with, whatever the
\* later increments of the working vector and the steps of the other units,
\* and every term a unit evaluates is a term of the sequence of that private
\* copy.
C12_UnitsReadPrivateCopies ==
    call.op = "loadNUntil"
        => /\ m_uz = call.uz
           /\ \A u \in DOMAIN units :
                 /\ units[u].f.uz = DispatchedTerms(u)
                 /\ units[u].f.st \in {"loop", "returned"}
                       => units[u].f.term = TermOf(units[u].f.cycle, units[u].f.uz)

\* what holds of the code in place of C12: the bound terms do not change
\* during loadNUntil, and every unit keeps the terms it was dispatched with
\* while the working vector is incremented and the other units run.
UnitsKeepTheirTerms ==
    call.op = "loadNUntil"
        => /\ m_uz = call.uz
           /\ \A u \in DOMAIN units :
                 units[u].f.uz = DispatchedTerms(u) /\ units[u].f.value = call.value

\* the first unit is inside its loop after both increments of the working
\* vector, the second unit being over
RunningAfterIncrements ==
    /\ call.op = "loadNUntil" /\ call.step = 1 /\ i = 2
    /\ units[1].f.st = "loop" /\ units[1].f.cycle >= 1
    /\ units[2].f.st = "returned"
    /\ uz # units[1].f.uz

====
